---- MODULE Spec2Model ----
(***************************************************************************)
(* Verification model of the muhurta calculator:                           *)
(*   - calendrical derivation (calculateTithi) of sweph-poc and of the     *)
(*     calculator script embedded in sweph-service.ts,                     *)
(*   - the scoring function and the 90-day ranker of App.tsx,              *)
(*   - the child-process protocol of SwissEphemerisService,                *)
(*   - the position snapshot and the daylight partition (calculateMuhurta).*)
(* Each part has its own specification over the shared variables; the      *)
(* variables of the other parts stay at their idle values.                 *)
(***************************************************************************)
EXTENDS Integers, Sequences, FiniteSets, TLC

VARIABLES
    sunLon, moonLon,        \* inputs of calculateTithi, in longitude units
    tithiOut,               \* results of calculateTithi(sunLon, moonLon)
    tithiWrapOut,           \* results of calculateTithi(sunLon + 360, moonLon)
    startDate,              \* new Date() of generateOptimizedMuhurats, hours from baseDate
    tzOffset,               \* local time minus UTC of the browser, hours
    birthData,              \* the birth profile: [date |-> [y, m, d]]
    selectedEventType,      \* key of EVENT_TYPES
    scoreOut,               \* last calculateMuhuratScore call: [i, score]
    muhurats,               \* result of the first generateOptimizedMuhurats call;
                            \* in the component, the list held in state
    muhuratsAgain,          \* result of the second call with the same inputs
    ephemeris,              \* what sweph.calc_ut does for each body of the roster
    calcDate,               \* year, month, day passed to calculateMuhurta
    snapshotSvc, snapshotPoc,   \* results of calculatePlanetaryPositions
    muhurtaSvc, muhurtaPoc,     \* results of calculateMuhurta
    muhurtaAgain,           \* result of a second calculateMuhurta call of the script
    queried,                \* the instants calculateMuhurta asked positions for
    initialized,            \* SwissEphemerisService.initialized
    svcPc,                  \* where the public method is: idle, init, calc, done
    svcCommand,             \* command of the public method in progress
    child,                  \* the spawned calculator process of runCalculation
    svcResult,              \* what the public method's promise settled with
    lonA, lonB,             \* two longitudes reported by the provider
    nakshatraOut,           \* their nakshatra indices: [a, b]
    yogaOut,                \* calculateYoga(lonA, lonB): [poc, svc]
    mainArgv,               \* process.argv[2] and [3] of the calculator script
    mainFaults,             \* whether sweph.set_ephe_path and sweph.close throw
    mainStdout,             \* the lines main has written with console.log
    location,               \* birthData.location, the text of the location field
    locationSuggestions,    \* the suggestions under the field
    showSuggestions,        \* whether they are shown
    network,                \* the requests sent to other hosts, in order
    lookups,                \* the calls of handleLocationChange awaiting their lookup
    currentView,            \* 'onboarding' or 'dashboard'
    localStorage,           \* the item 'muhuratBirthData', when there is one
    mounted                 \* whether the effect of the first render has run

tithiVars == <<sunLon, moonLon, tithiOut, tithiWrapOut>>
viewVars == <<currentView, localStorage, mounted>>
appVars == <<startDate, tzOffset, birthData, selectedEventType, scoreOut,
             muhurats, muhuratsAgain,
             currentView, localStorage, mounted>>

calcVars == <<ephemeris, calcDate, snapshotSvc, snapshotPoc, muhurtaSvc, muhurtaPoc,
              muhurtaAgain, queried>>
svcVars == <<initialized, svcPc, svcCommand, child, svcResult>>
nakVars == <<lonA, lonB, nakshatraOut, yogaOut>>
mainVars == <<mainArgv, mainFaults, mainStdout>>
locVars == <<location, locationSuggestions, showSuggestions, network, lookups>>

vars == <<tithiVars, appVars, calcVars, svcVars, nakVars, mainVars, locVars>>

\* the variables of the other parts
notTithi == <<appVars, calcVars, svcVars, nakVars, mainVars, locVars>>
notApp == <<tithiVars, calcVars, svcVars, nakVars, mainVars, locVars>>
notCalc == <<tithiVars, appVars, svcVars, nakVars, mainVars, locVars>>
notSvc == <<tithiVars, appVars, calcVars, nakVars, mainVars, locVars>>
notNak == <<tithiVars, appVars, calcVars, svcVars, mainVars, locVars>>
notMain == <<tithiVars, appVars, calcVars, svcVars, nakVars, locVars>>
notLoc == <<tithiVars, appVars, calcVars, svcVars, nakVars, mainVars>>

\* an optional value: <<>> while absent, <<v>> once set
Nothing == <<>>
Some(v) == <<v>>
IsSome(o) == Len(o) = 1
Val(o) == o[1]

Undefined == "undefined"

\* the element of a one-element set; {F(x) : x \in {e}} evaluates e once
The(S) == CHOOSE x \in S : TRUE

(***************************************************************************)
(* JavaScript numbers.  A longitude is a binary floating-point number; the *)
(* model keeps the format and shrinks its width: a number is an integer    *)
(* count of 1/UnitsPerDegree degree, and every arithmetic result is        *)
(* rounded to MantissaBits significant bits, ties to even (IEEE 754        *)
(* round-to-nearest, which a JS Number has with 53 bits).                  *)
(***************************************************************************)
UnitsPerDegree == 1
MantissaBits == 8

Deg(d) == d * UnitsPerDegree

RECURSIVE BitLen(_)
BitLen(n) == IF n = 0 THEN 0 ELSE 1 + BitLen(n \div 2)

Pow2(e) == 2 ^ e

RoundNearestEven(x) ==
    LET e == BitLen(x) - MantissaBits
    IN  IF e <= 0 THEN x
        ELSE LET q  == Pow2(e)
                 m  == x \div q
                 r  == x - m * q
             IN  IF 2 * r < q THEN m * q
                 ELSE IF 2 * r > q THEN (m + 1) * q
                 ELSE IF m % 2 = 0 THEN m * q ELSE (m + 1) * q

\* the Number nearest to the exact value x
Fl(x) == IF x < 0 THEN 0 - RoundNearestEven(0 - x) ELSE RoundNearestEven(x)

IsNumber(x) == Fl(x) = x

\* every Number in [0, 360)
Longitudes == {x \in 0 .. (Deg(360) - 1) : IsNumber(x)}

\* Math.floor(x / d) for a positive divisor d: the correctly rounded quotient of
\* a Number below k*d stays below k, so the floor is the exact one
MathFloorDiv(x, d) == x \div d

(***************************************************************************)
(* calculateTithi, sweph-poc (unnamed/part_003).                           *)
(***************************************************************************)
tithiNamesPoc == <<
    "Pratipada", "Dwitiya", "Tritiya", "Chaturthi", "Panchami",
    "Shashthi", "Saptami", "Ashtami", "Navami", "Dashami",
    "Ekadashi", "Dwadashi", "Trayodashi", "Chaturdashi", "Purnima",
    "Pratipada", "Dwitiya", "Tritiya", "Chaturthi", "Panchami",
    "Shashthi", "Saptami", "Ashtami", "Navami", "Dashami",
    "Ekadashi", "Dwadashi", "Trayodashi", "Chaturdashi", "Amavasya" >>

\* array[i] of JavaScript, 0-based: undefined outside the array
ArrayAt(arr, i) == IF i >= 0 /\ i < Len(arr) THEN arr[i + 1] ELSE Undefined

\* let angle = moonLongitude - sunLongitude; if (angle < 0) angle += 360;
TithiAngle(sunLongitude, moonLongitude) ==
    LET angle == Fl(moonLongitude - sunLongitude)
    IN  IF angle < 0 THEN Fl(angle + Deg(360)) ELSE angle

\* the tithi counted from 0
TithiNumberFromZero(angle) == MathFloorDiv(angle, Deg(12))

\* const tithi = Math.floor(angle / 12) + 1;
TithiNumber(angle) == MathFloorDiv(angle, Deg(12)) + 1

Paksha(tithi) == IF tithi <= 15 THEN "Shukla" ELSE "Krishna"

calculateTithiPoc(sunLongitude, moonLongitude) ==
    LET tithi == TithiNumber(TithiAngle(sunLongitude, moonLongitude))
    IN  [tithi     |-> tithi,
         tithiName |-> ArrayAt(tithiNamesPoc, tithi - 1),
         paksha    |-> Paksha(tithi)]

(***************************************************************************)
(* calculateTithi, embedded calculator script (sweph-service.ts).          *)
(***************************************************************************)
tithiNamesSvc == <<
    "Pratipada", "Dwitiya", "Tritiya", "Chaturthi", "Panchami",
    "Shashthi", "Saptami", "Ashtami", "Navami", "Dashami",
    "Ekadashi", "Dwadashi", "Trayodashi", "Chaturdashi", "Purnima/Amavasya" >>

calculateTithiSvc(sunLongitude, moonLongitude) ==
    LET tithi == TithiNumber(TithiAngle(sunLongitude, moonLongitude))
        tithiWithinPaksha == IF tithi <= 15 THEN tithi ELSE tithi - 15
    IN  [tithi     |-> tithi,
         tithiName |-> ArrayAt(tithiNamesSvc, tithiWithinPaksha - 1),
         paksha    |-> Paksha(tithi)]

(***************************************************************************)
(* JavaScript Date, in hours.  An instant is a count of hours from         *)
(* 2024-01-01T00:00:00Z, the baseDate of calculateLunarDay; the local      *)
(* fields (getDay, getMonth) are read tzOffset hours later, the UTC fields *)
(* (toISOString, the parse of a 'YYYY-MM-DD' string) are not.              *)
(***************************************************************************)
HoursPerDay == 24

\* days from 1970-01-01 to the civil date y-m-d (m in 1..12), proleptic Gregorian
DaysFromCivil(y, m, d) ==
    LET yy  == IF m <= 2 THEN y - 1 ELSE y
        era == yy \div 400
        yoe == yy - era * 400
        mp  == IF m > 2 THEN m - 3 ELSE m + 9
        doy == (153 * mp + 2) \div 5 + d - 1
        doe == yoe * 365 + yoe \div 4 - yoe \div 100 + doy
    IN  era * 146097 + doe - 719468

\* the month, 0..11, of the civil date z days after 1970-01-01
CivilMonth(z) ==
    LET zz  == z + 719468
        era == zz \div 146097
        doe == zz - era * 146097
        yoe == (doe - doe \div 1460 + doe \div 36524 - doe \div 146096) \div 365
        doy == doe - (365 * yoe + yoe \div 4 - yoe \div 100)
        mp  == (5 * doy + 2) \div 153
    IN  IF mp < 10 THEN mp + 2 ELSE mp - 10

\* new Date('2024-01-01'), as days from 1970-01-01
baseDate == DaysFromCivil(2024, 1, 1)

\* new Date('YYYY-MM-DD'): midnight UTC of that civil date
ParseIsoDate(str) == (DaysFromCivil(str.y, str.m, str.d) - baseDate) * HoursPerDay

\* the day count of the local civil date of instant t, from 1970-01-01
LocalDay(t) == (t + tzOffset) \div HoursPerDay + baseDate

\* Date.prototype.getMonth and getDay (0 = Sunday; 1970-01-01 was a Thursday)
getMonth(t) == CivilMonth(LocalDay(t))
getDay(t) == (LocalDay(t) + 4) % 7

\* date.toISOString().split('T')[0]: the UTC civil date, as its day count from baseDate
IsoDate(t) == t \div HoursPerDay

\* date.setDate(date.getDate() + i): the same local time i days later
AddDays(t, i) == t + i * HoursPerDay

\* the remainder operator % of JavaScript: the sign of the dividend
JsRem(a, n) == IF a >= 0 THEN a % n ELSE 0 - ((0 - a) % n)

Min(a, b) == IF a <= b THEN a ELSE b
Max(a, b) == IF a >= b THEN a ELSE b

(***************************************************************************)
(* Scoring function, App.tsx.                                              *)
(***************************************************************************)
NAKSHATRAS == <<
    "Ashwini", "Bharani", "Krittika", "Rohini", "Mrigashira", "Ardra",
    "Punarvasu", "Pushya", "Ashlesha", "Magha", "Purva Phalguni", "Uttara Phalguni",
    "Hasta", "Chitra", "Swati", "Vishakha", "Anuradha", "Jyeshtha",
    "Mula", "Purva Ashadha", "Uttara Ashadha", "Shravana", "Dhanishta",
    "Shatabhisha", "Purva Bhadrapada", "Uttara Bhadrapada", "Revati" >>

EVENT_TYPES ==
    [wedding   |-> [name |-> "Wedding",   auspicious |-> {1, 3, 5, 7, 10, 11, 13}],
     travel    |-> [name |-> "Travel",    auspicious |-> {2, 4, 6, 8, 10, 12, 14}],
     business  |-> [name |-> "Business",  auspicious |-> {1, 2, 5, 9, 11, 13, 15}],
     property  |-> [name |-> "Property",  auspicious |-> {2, 5, 7, 10, 12, 14}],
     education |-> [name |-> "Education", auspicious |-> {1, 4, 5, 9, 10, 11}]]

\* Math.floor(diffTime / (1000 * 60 * 60 * 24))
diffDays(date) == date \div HoursPerDay

calculateLunarDay(date) == JsRem(diffDays(date), 30) + 1

getNakshatra(date) == ArrayAt(NAKSHATRAS, JsRem(diffDays(date), 27))

\* a weekday table that pays Wednesday like Thursday
auspiciousDaysWednesdayTen(dayOfWeek) ==
    CASE dayOfWeek = 1 -> 15
      [] dayOfWeek = 3 -> 10
      [] dayOfWeek = 4 -> 10
      [] dayOfWeek = 5 -> 15
      [] OTHER -> 0

\* const auspiciousDays = { 1: 15, 3: 20, 4: 10, 5: 15 }; auspiciousDays[dayOfWeek] || 0
auspiciousDays(dayOfWeek) ==
    CASE dayOfWeek = 1 -> 15
      [] dayOfWeek = 3 -> 20
      [] dayOfWeek = 4 -> 10
      [] dayOfWeek = 5 -> 15
      [] OTHER -> 0

auspiciousNakshatras == {"Rohini", "Pushya", "Hasta", "Swati", "Uttara Phalguni"}

\* new Date(birthData.date).getMonth()
birthMonthOf(birth) == getMonth(ParseIsoDate(birth.date))

\* (currentMonth - birthMonth) % 6 === 0
PhaseAligned(date, birth) == JsRem(getMonth(date) - birthMonthOf(birth), 6) = 0

\* the score before the final clamp
RawScore(date, eventType, birth) ==
    50
    + (IF calculateLunarDay(date) \in EVENT_TYPES[eventType].auspicious THEN 25 ELSE 0)
    + auspiciousDays(getDay(date))
    + (IF getNakshatra(date) \in auspiciousNakshatras THEN 15 ELSE 0)
    + (IF PhaseAligned(date, birth) THEN 10 ELSE 0)

\* a clamp with the lower limit only
ClampNoUpper(score) == Max(10, score)

\* Math.min(100, Math.max(10, score))
Clamp(score) == Min(100, Max(10, score))

calculateMuhuratScore(date, eventType, birth) ==
    Clamp(RawScore(date, eventType, birth))

(***************************************************************************)
(* Horizon ranker, App.tsx: generateOptimizedMuhurats.                     *)
(***************************************************************************)
HorizonDays == 90
MinScore == 60
TopN == 20

timeSlots == <<"06:00", "07:30", "10:15", "11:45">>

\* the candidate pushed for day i; slot is Math.floor(Math.random() * timeSlots.length)
Candidate(i, start, eventType, birth, slot) ==
    LET date  == AddDays(start, i)
        score == calculateMuhuratScore(date, eventType, birth)
    IN  [id          |-> i,
         date        |-> IsoDate(date),
         time        |-> ArrayAt(timeSlots, slot),
         type        |-> eventType,
         score       |-> score,
         nakshatra   |-> getNakshatra(date),
         tithi       |-> calculateLunarDay(date),
         description |-> IF score > 85 THEN "Exceptionally auspicious"
                         ELSE IF score > 75 THEN "Highly favorable"
                         ELSE "Auspicious"]

\* the days of the loop whose score passes the filter, in loop order
Qualifying(start, eventType, birth, random) ==
    LET all == [n \in 1 .. HorizonDays |->
                   Candidate(n - 1, start, eventType, birth, random[n - 1])]
        Passes(m) == m.score >= MinScore
    IN  SelectSeq(all, Passes)

\* a comparator that puts the later of two equal scores first
ComesBeforeTiesLast(a, b) == a.score > b.score

\* (a, b) => b.score - a.score: a stays before b unless b scores more
ComesBefore(a, b) == a.score >= b.score

\* Array.prototype.sort, a stable sort: element j precedes element k when the
\* comparator orders them so, and by input order when it does not order them
SortMuhurats(list) ==
    LET n == Len(list)
        Precedes(j, k) ==
            IF j < k THEN ComesBefore(list[j], list[k])
            ELSE ~ ComesBefore(list[k], list[j])
        Place(k) == 1 + Cardinality({j \in 1 .. n : j # k /\ Precedes(j, k)})
    IN  The({[p \in 1 .. n |-> list[CHOOSE k \in 1 .. n : place[k] = p]] :
                place \in {[k \in 1 .. n |-> Place(k)]}})

\* the last TopN elements instead of the first
SliceFromEnd(list) == SubSeq(list, Max(1, Len(list) - TopN + 1), Len(list))

\* .slice(0, 20)
Slice(list) == SubSeq(list, 1, Min(TopN, Len(list)))

generateOptimizedMuhurats(birth, eventType, start, random) ==
    The({Slice(SortMuhurats(pushed)) :
            pushed \in {Qualifying(start, eventType, birth, random)}})

(***************************************************************************)
(* Inputs of the ranker.                                                   *)
(***************************************************************************)
MaxStartDay == 2

\* 'today': a few days from 2026-11-04, and 2028-03-22 (a Wednesday under
\* Rohini with tithi 13), early and late in the UTC day; and 2023-11-15, a
\* day of a clock that is behind the reference date 2024-01-01
StartDates ==
    {(DaysFromCivil(2026, 11, 4) - baseDate + k) * HoursPerDay + h :
        k \in 0 .. MaxStartDay, h \in {2, 21}}
    \cup {(DaysFromCivil(2028, 3, 22) - baseDate) * HoursPerDay + h : h \in {2, 21}}
    \cup {(DaysFromCivil(2023, 11, 15) - baseDate) * HoursPerDay + 2}

\* browsers west of, at and east of Greenwich
TimeZones == {0 - 5, 0, 9}

BirthProfiles ==
    {[date |-> [y |-> 1990, m |-> 5, d |-> 1]],
     [date |-> [y |-> 1990, m |-> 5, d |-> 15]],
     [date |-> [y |-> 1985, m |-> 11, d |-> 30]]}

EventKeys == {"wedding", "travel", "business", "property", "education"}

\* the outcomes of Math.random over one call: a draw per loop index
RandomDraws ==
    {[i \in 0 .. HorizonDays - 1 |-> (a * i) % Len(timeSlots)] : a \in {0, 1}}

NoBirth == [date |-> [y |-> 1970, m |-> 1, d |-> 1]]

AppIdle ==
    /\ startDate = 0 /\ tzOffset = 0
    /\ birthData = NoBirth
    /\ selectedEventType = "wedding"
    /\ scoreOut = Nothing /\ muhurats = Nothing /\ muhuratsAgain = Nothing
    /\ currentView = "onboarding" /\ localStorage = Nothing /\ mounted = FALSE

AppInit ==
    /\ startDate \in StartDates
    /\ tzOffset \in TimeZones
    /\ birthData \in BirthProfiles
    /\ selectedEventType \in EventKeys
    /\ scoreOut = Nothing /\ muhurats = Nothing /\ muhuratsAgain = Nothing
    /\ currentView = "onboarding" /\ localStorage = Nothing /\ mounted = FALSE

appInputs == <<startDate, tzOffset, birthData, selectedEventType, viewVars>>

\* one call of calculateMuhuratScore, for day i of the window
ScoreDay(i) ==
    /\ scoreOut = Nothing
    /\ muhurats = Nothing
    /\ scoreOut' = Some([i |-> i,
                         score |-> calculateMuhuratScore(AddDays(startDate, i),
                                       selectedEventType, birthData)])
    /\ UNCHANGED <<appInputs, muhurats, muhuratsAgain, notApp>>

\* generateOptimizedMuhurats(birthData, eventType)
Rank(random) ==
    /\ scoreOut = Nothing
    /\ muhurats = Nothing
    /\ muhurats' = Some(generateOptimizedMuhurats(birthData, selectedEventType,
                                                  startDate, random))
    /\ UNCHANGED <<appInputs, scoreOut, muhuratsAgain, notApp>>

\* a second call with the same birth profile, event type and 'today'
RankAgain(random) ==
    /\ IsSome(muhurats)
    /\ muhuratsAgain = Nothing
    /\ muhuratsAgain' = Some(generateOptimizedMuhurats(birthData, selectedEventType,
                                                       startDate, random))
    /\ UNCHANGED <<appInputs, scoreOut, muhurats, notApp>>

(***************************************************************************)
(* The component MuhuratFinderLite: the view, the birth data of the form,  *)
(* the selected event type and the muhurat list, from the first render on. *)
(* The form is complete or empty; 'today' stays the same, and the browser  *)
(* is in UTC.                                                              *)
(***************************************************************************)
\* useState({ date: '', time: '', location: '' })
EmptyBirthData == [date |-> [y |-> 0, m |-> 0, d |-> 0]]

ViewInit ==
    /\ startDate \in StartDates
    /\ tzOffset = 0
    /\ birthData = EmptyBirthData
    /\ selectedEventType = "wedding"
    /\ muhurats = Some(<<>>)
    /\ scoreOut = Nothing /\ muhuratsAgain = Nothing
    /\ currentView = "onboarding"
    /\ localStorage \in {Nothing} \cup {Some(saved) : saved \in BirthProfiles}
    /\ mounted = FALSE

\* the useEffect of the first render
Mount ==
    /\ ~ mounted
    /\ mounted' = TRUE
    /\ IF IsSome(localStorage)
       THEN /\ birthData' = Val(localStorage)
            /\ currentView' = "dashboard"
       ELSE UNCHANGED <<birthData, currentView>>
    /\ UNCHANGED <<startDate, tzOffset, selectedEventType, scoreOut, muhurats,
                   muhuratsAgain, localStorage, notApp>>

\* the onChange handlers of the onboarding form
ChangeBirthData(data) ==
    /\ mounted
    /\ currentView = "onboarding"
    /\ birthData' = data
    /\ UNCHANGED <<startDate, tzOffset, selectedEventType, scoreOut, muhurats,
                   muhuratsAgain, viewVars, notApp>>

\* generateMuhurats(eventType): the list that setMuhurats receives
generateMuhurats(eventType, random) ==
    Some(generateOptimizedMuhurats(birthData, eventType, startDate, random))

handleSubmit(random) ==
    /\ mounted
    /\ currentView = "onboarding"
    /\ IF birthData # EmptyBirthData
       THEN /\ localStorage' = Some(birthData)
            /\ muhurats' = generateMuhurats(selectedEventType, random)
            /\ currentView' = "dashboard"
       ELSE UNCHANGED <<localStorage, muhurats, currentView>>
    /\ UNCHANGED <<startDate, tzOffset, birthData, selectedEventType, scoreOut,
                   muhuratsAgain, mounted, notApp>>

\* onClick of a button of the event type selector
SelectEventType(key, random) ==
    /\ mounted
    /\ currentView = "dashboard"
    /\ selectedEventType' = key
    /\ muhurats' = generateMuhurats(key, random)
    /\ UNCHANGED <<startDate, tzOffset, birthData, scoreOut, muhuratsAgain,
                   viewVars, notApp>>

\* onClick of the settings button: setCurrentView('onboarding')
ReturnToOnboarding ==
    /\ mounted
    /\ currentView = "dashboard"
    /\ currentView' = "onboarding"
    /\ UNCHANGED <<startDate, tzOffset, birthData, selectedEventType, scoreOut,
                   muhurats, muhuratsAgain, localStorage, mounted, notApp>>

(***************************************************************************)
(* Position snapshot: calculatePlanetaryPositions of sweph-poc and of the  *)
(* embedded calculator script.  sweph.calc_ut is the ephemeris provider:   *)
(* for a body it returns a longitude ("ok"), returns its error report      *)
(* in-band with zeroed data ("error": flag < 0 and an error string, the    *)
(* CalcResult of test-sweph.ts), or throws ("throw").                      *)
(***************************************************************************)
planets == <<"Sun", "Moon", "Mercury", "Venus", "Mars", "Jupiter", "Saturn", "Rahu">>

nakshtraNames == <<
    "Ashwini", "Bharani", "Krittika", "Rohini", "Mrigashira", "Ardra",
    "Punarvasu", "Pushya", "Ashlesha", "Magha", "Purva Phalguni", "Uttara Phalguni",
    "Hasta", "Chitra", "Swati", "Vishakha", "Anuradha", "Jyeshtha",
    "Mula", "Purva Ashadha", "Uttara Ashadha", "Shravana", "Dhanishta", "Shatabhisha",
    "Purva Bhadrapada", "Uttara Bhadrapada", "Revati" >>

zodiacNames == <<
    "Aries", "Taurus", "Gemini", "Cancer", "Leo", "Virgo",
    "Libra", "Scorpio", "Sagittarius", "Capricorn", "Aquarius", "Pisces" >>

\* sweph.calc_ut(julianDay, planet.id, SE_FLG_SWIEPH) for a body that does not throw
calc_ut(body) ==
    [flag  |-> IF ephemeris[body].kind = "ok" THEN 2 ELSE 0 - 1,
     error |-> IF ephemeris[body].kind = "ok" THEN "" ELSE "ephemeris file not found",
     data  |-> IF ephemeris[body].kind = "ok" THEN ephemeris[body].longitude ELSE 0]

\* the index of the zodiac sign taken for the nakshatra
NakshatraIndexBySign(longitude) == MathFloorDiv(longitude, Deg(30))

\* Math.floor(longitude * 27 / 360): the product is rounded to a Number
NakshatraIndex(longitude) == MathFloorDiv(Fl(longitude * 27), Deg(360))

\* the body of planets.map(planet => ...)
PositionOf(body) ==
    LET longitude == calc_ut(body).data
    IN  [planet        |-> body,
         longitude     |-> longitude,
         zodiacSign    |-> ArrayAt(zodiacNames, MathFloorDiv(longitude, Deg(30))),
         nakshatra     |-> ArrayAt(nakshtraNames, NakshatraIndex(longitude)),
         nakshatra_num |-> NakshatraIndex(longitude) + 1]

\* does the try block of calculatePlanetaryPositions throw
PositionsThrow == \E n \in 1 .. Len(planets) : ephemeris[planets[n]].kind = "throw"

PositionsMap == [n \in 1 .. Len(planets) |-> PositionOf(planets[n])]

\* embedded calculator script: { success: true, positions } or
\* { success: false, message }
calculatePlanetaryPositionsSvc ==
    IF PositionsThrow
    THEN [success |-> FALSE, message |-> "Error calculating planetary positions",
          positions |-> Nothing]
    ELSE [success |-> TRUE, message |-> Undefined, positions |-> Some(PositionsMap)]

\* sweph-poc: the positions, or [] from the catch block
calculatePlanetaryPositionsPoc == IF PositionsThrow THEN <<>> ELSE PositionsMap

(***************************************************************************)
(* calculateYoga of sweph-poc and of the embedded calculator script.       *)
(***************************************************************************)
yogaNamesPoc == <<
    "Vishkumbha", "Preeti", "Ayushman", "Saubhagya", "Shobhana",
    "Atiganda", "Sukarma", "Dhriti", "Shoola", "Ganda",
    "Vriddhi", "Dhruva", "Vyaghata", "Harshana", "Vajra",
    "Siddhi", "Vyatipata", "Variyan", "Parigha", "Shiva",
    "Siddha", "Sadhya", "Shubha", "Shukla", "Brahma",
    "Indra", "Vaidhriti" >>

yogaNamesSvc == <<
    "Vishkumbha", "Priti", "Ayushman", "Saubhagya", "Shobhana",
    "Atiganda", "Sukarma", "Dhriti", "Shula", "Ganda",
    "Vriddhi", "Dhruva", "Vyaghata", "Harshana", "Vajra",
    "Siddhi", "Vyatipata", "Variyana", "Parigha", "Shiva",
    "Siddha", "Sadhya", "Shubha", "Shukla", "Brahma",
    "Indra", "Vaidhriti" >>

\* let sum = sunLongitude + moonLongitude; if (sum >= 360) sum -= 360;
YogaSum(sunLongitude, moonLongitude) ==
    LET sum == Fl(sunLongitude + moonLongitude)
    IN  IF sum >= Deg(360) THEN Fl(sum - Deg(360)) ELSE sum

\* Math.floor(sum / (360/27)): the divisor 360/27 = 13.33... is rounded to a
\* Number first (divisor / scale, with MantissaBits bits), and the quotient
\* is rounded to a Number before the floor: a quotient within half a unit in
\* the last place below the integer k becomes k
FloorOfQuotient(sum) ==
    LET scale   == Pow2(MantissaBits - 4)
        divisor == (80 * scale + 3) \div 6
        num     == sum * scale
        den     == divisor * UnitsPerDegree
        below   == num \div den
        ulps    == Pow2(MantissaBits + 1 - BitLen(below))
    IN  IF ((below + 1) * den - num) * ulps <= den THEN below + 1 ELSE below

\* Math.floor(sum / (360/27)) + 1
calculateYogaPoc(sunLongitude, moonLongitude) ==
    LET yoga == FloorOfQuotient(YogaSum(sunLongitude, moonLongitude)) + 1
    IN  [yoga |-> yoga, yogaName |-> ArrayAt(yogaNamesPoc, yoga - 1)]

\* Math.floor(sum * 27 / 360) + 1, the product rounded to a Number
calculateYogaSvc(sunLongitude, moonLongitude) ==
    LET yoga == MathFloorDiv(Fl(YogaSum(sunLongitude, moonLongitude) * 27), Deg(360)) + 1
    IN  [yoga |-> yoga, yogaName |-> ArrayAt(yogaNamesSvc, yoga - 1)]

(***************************************************************************)
(* Daylight partition: calculateMuhurta.  A Julian day of the present era  *)
(* is a JS Number in [2^21, 2^22), a multiple of 2^-31 day; the model      *)
(* counts a time of day in these ticks from the midnight julianDay, so     *)
(* half a day is 2^30 ticks, and every sum is rounded to a whole tick as   *)
(* the addition of the two Numbers is.                                     *)
(***************************************************************************)
TicksPerHalfDay == 2 ^ 30

\* the integer nearest to a / b, ties to even
RoundDiv(a, b) ==
    LET q == a \div b
        r == a % b
    IN  IF 2 * r < b THEN q
        ELSE IF 2 * r > b THEN q + 1
        ELSE IF q % 2 = 0 THEN q ELSE q + 1

\* the integer nearest to i * n / d, without forming i * n
MulDivRound(i, n, d) == i * (n \div d) + RoundDiv(i * (n % d), d)

\* julianDay + (6/24), julianDay + (18/24): both exact
sunriseJD == TicksPerHalfDay \div 2
sunsetJD == 3 * (TicksPerHalfDay \div 2)

\* (sunsetJD - sunriseJD) * 24 hours, kept in ticks
dayLength == sunsetJD - sunriseJD

MuhurtaCount == 15

\* sunriseJD + (i * muhurtaDuration) / 24 with muhurtaDuration = dayLength / 15
startTime(i) == sunriseJD + MulDivRound(i, dayLength, MuhurtaCount)

\* sunriseJD + ((i + 1) * muhurtaDuration) / 24
endTime(i) == sunriseJD + MulDivRound(i + 1, dayLength, MuhurtaCount)

\* sweph.revjul(jd, SE_GREG_CAL).hour = 24 * (time of day), exact: the whole
\* hours and the rest of the hour in units of 2^-28 hour
revjul(jd) ==
    LET threeHours == TicksPerHalfDay \div 4
    IN  [hour     |-> 3 * (jd \div threeHours) + (3 * (jd % threeHours)) \div threeHours,
         fraction |-> (3 * (jd % threeHours)) % threeHours]

\* hour = Math.floor(date.hour); minute = Math.floor((date.hour - hour) * 60)
formatTime(date) ==
    LET quarterHour == TicksPerHalfDay \div 16
    IN  [hh |-> date.hour,
         mm |-> 15 * (date.fraction \div quarterHour)
                    + (15 * (date.fraction % quarterHour)) \div quarterHour]

\* midTime = (startTime + endTime) / 2: the sum of two Julian days has half
\* their resolution, so an odd count of ticks is rounded to a multiple of 4
midTime(i) ==
    LET length == endTime(i) - startTime(i)
        sumMod == ((startTime(i) % 4) + (endTime(i) % 4)) % 4
    IN  startTime(i) + (CASE sumMod = 1 -> length - 1
                          [] sumMod = 3 -> length + 1
                          [] OTHER -> length) \div 2

\* the instant calculatePlanetaryPositions turns its arguments into:
\* julday(year, month, day, hour + minute / 60 + second / 3600) with
\* hour = midDate.hour, the whole time of day in hours with its fraction,
\* minute = Math.floor((midDate.hour - Math.floor(midDate.hour)) * 60) and
\* second = 0; a minute is 2^26 / 45 ticks, the sum taken to the nearest tick
QueryInstant(i) ==
    midTime(i) + MulDivRound(formatTime(revjul(midTime(i))).mm, TicksPerHalfDay \div 16, 45)

muhurtaNames == <<
    "Rudra", "Ahi", "Mitra", "Pitri", "Vasu",
    "Vara", "Vishvedeva", "Vidhi", "Satamukhi", "Puruhuta",
    "Vahini", "Naktanakara", "Varuna", "Aryaman", "Bhaga" >>

qualities == <<"Inauspicious", "Neutral", "Auspicious">>

\* positions.find(p => p.planet === name): <<>> for undefined
Find(positions, name) ==
    IF \E n \in 1 .. Len(positions) : positions[n].planet = name
    THEN Some(positions[CHOOSE n \in 1 .. Len(positions) : positions[n].planet = name])
    ELSE Nothing

\* one pass of the loop of calculateMuhurta: the record pushed for index i;
\* script is "svc" for the embedded calculator script, "poc" for sweph-poc
MuhurtaOf(i, positions, script, qualityIndex) ==
    LET sun   == Find(positions, "Sun")
        moon  == Find(positions, "Moon")
        known == IsSome(sun) /\ IsSome(moon)
        tithi == IF script = "svc"
                 THEN calculateTithiSvc(Val(sun).longitude, Val(moon).longitude)
                 ELSE calculateTithiPoc(Val(sun).longitude, Val(moon).longitude)
        yoga  == IF script = "svc"
                 THEN calculateYogaSvc(Val(sun).longitude, Val(moon).longitude)
                 ELSE calculateYogaPoc(Val(sun).longitude, Val(moon).longitude)
    IN  [number    |-> i + 1,
         name      |-> ArrayAt(muhurtaNames, i),
         startTime |-> formatTime(revjul(startTime(i))),
         endTime   |-> formatTime(revjul(endTime(i))),
         quality   |-> ArrayAt(qualities, qualityIndex),
         tithi     |-> IF known THEN <<tithi.tithiName, tithi.paksha>> ELSE <<"Unknown">>,
         yoga      |-> IF known THEN yoga.yogaName ELSE "Unknown",
         nakshatra |-> IF IsSome(moon) THEN Val(moon).nakshatra ELSE "Unknown"]

MuhurtaSuccess(date, list) ==
    [success  |-> TRUE,
     message  |-> Undefined,
     date     |-> date,
     sunrise  |-> revjul(sunriseJD),
     sunset   |-> revjul(sunsetJD),
     muhurtas |-> Some(list)]

\* the keys of the object literal calculateMuhurta returns
MuhurtaResultKeys(result) ==
    IF result.success
    THEN {"success", "date", "sunrise", "sunset", "dayLength", "muhurtas"}
    ELSE {"success", "message"}

\* embedded calculator script: calculatePlanetaryPositions(...).positions is
\* undefined after a failure, positions.find throws, the catch block answers
calculateMuhurtaSvc(date, random) ==
    IF ~ calculatePlanetaryPositionsSvc.success
    THEN [success |-> FALSE, message |-> "Error calculating muhurta", date |-> Undefined,
          sunrise |-> Undefined, sunset |-> Undefined, muhurtas |-> Nothing]
    ELSE MuhurtaSuccess(date,
             [n \in 1 .. MuhurtaCount |->
                 MuhurtaOf(n - 1, Val(calculatePlanetaryPositionsSvc.positions),
                           "svc", random[n - 1])])

\* sweph-poc: the snapshot is [] after a failure and the loop goes on
calculateMuhurtaPoc(date, random) ==
    MuhurtaSuccess(date,
        [n \in 1 .. MuhurtaCount |->
            MuhurtaOf(n - 1, calculatePlanetaryPositionsPoc, "poc", random[n - 1])])

(***************************************************************************)
(* Inputs and calls of the calculator.                                     *)
(***************************************************************************)
MaxFailing == 1

ReplyKinds == {"ok", "error", "throw"}

\* longitudes the provider reports: Sun, Moon, every other body
Skies ==
    {[b \in {planets[n] : n \in 1 .. Len(planets)} |->
          IF b = "Sun" THEN s ELSE IF b = "Moon" THEN m ELSE Deg(45)] :
        s \in {Deg(280)}, m \in {Deg(10), Deg(100), Deg(200)}}

\* the provider serves every body, or fails for up to MaxFailing of them
Ephemerides ==
    {[b \in DOMAIN sky |-> [kind |-> kinds[b], longitude |-> sky[b]]] :
        sky \in Skies,
        kinds \in {k \in [{planets[n] : n \in 1 .. Len(planets)} -> ReplyKinds] :
                      Cardinality({b \in DOMAIN k : k[b] # "ok"}) <= MaxFailing}}

CalcDates == {[y |-> 2025, m |-> 6, d |-> 30], [y |-> 2023, m |-> 12, d |-> 31]}

\* the outcomes of Math.random over one calculateMuhurta: an index per interval
QualityDraws ==
    {[i \in 0 .. MuhurtaCount - 1 |-> (a * i) % Len(qualities)] : a \in {0, 1}}

NoEphemeris ==
    [b \in {planets[n] : n \in 1 .. Len(planets)} |-> [kind |-> "ok", longitude |-> 0]]

CalcIdle ==
    /\ ephemeris = NoEphemeris
    /\ calcDate = [y |-> 2024, m |-> 1, d |-> 1]
    /\ snapshotSvc = Nothing /\ snapshotPoc = Nothing
    /\ muhurtaSvc = Nothing /\ muhurtaPoc = Nothing /\ muhurtaAgain = Nothing
    /\ queried = [svc |-> <<>>, poc |-> <<>>]

CalcInit ==
    /\ ephemeris \in Ephemerides
    /\ calcDate \in CalcDates
    /\ snapshotSvc = Nothing /\ snapshotPoc = Nothing
    /\ muhurtaSvc = Nothing /\ muhurtaPoc = Nothing /\ muhurtaAgain = Nothing
    /\ queried = [svc |-> <<>>, poc |-> <<>>]

CallPositionsSvc ==
    /\ snapshotSvc = Nothing
    /\ snapshotSvc' = Some(calculatePlanetaryPositionsSvc)
    /\ UNCHANGED <<ephemeris, calcDate, snapshotPoc, muhurtaSvc, muhurtaPoc, muhurtaAgain,
                   queried, notCalc>>

CallPositionsPoc ==
    /\ snapshotPoc = Nothing
    /\ snapshotPoc' = Some(calculatePlanetaryPositionsPoc)
    /\ UNCHANGED <<ephemeris, calcDate, snapshotSvc, muhurtaSvc, muhurtaPoc, muhurtaAgain,
                   queried, notCalc>>

\* calculateMuhurta of the script, called once and then once more with the
\* same date and location
CallMuhurtaSvc(random) ==
    /\ muhurtaAgain = Nothing
    /\ IF muhurtaSvc = Nothing
       THEN /\ muhurtaSvc' = Some(calculateMuhurtaSvc(calcDate, random))
            /\ UNCHANGED muhurtaAgain
       ELSE /\ muhurtaAgain' = Some(calculateMuhurtaSvc(calcDate, random))
            /\ UNCHANGED muhurtaSvc
    /\ queried' = [queried EXCEPT !.svc =
                      IF calculatePlanetaryPositionsSvc.success
                      THEN [n \in 1 .. MuhurtaCount |-> QueryInstant(n - 1)]
                      ELSE <<QueryInstant(0)>>]
    /\ UNCHANGED <<ephemeris, calcDate, snapshotSvc, snapshotPoc, muhurtaPoc, notCalc>>

CallMuhurtaPoc(random) ==
    /\ muhurtaPoc = Nothing
    /\ muhurtaPoc' = Some(calculateMuhurtaPoc(calcDate, random))
    /\ queried' = [queried EXCEPT !.poc =
                      [n \in 1 .. MuhurtaCount |-> QueryInstant(n - 1)]]
    /\ UNCHANGED <<ephemeris, calcDate, snapshotSvc, snapshotPoc, muhurtaSvc, muhurtaAgain,
                   notCalc>>

(***************************************************************************)
(* main of the calculator script: one run of 'node sweph-calculator.js     *)
(* command args'.  stdout is the sequence of lines written by console.log, *)
(* each the JSON text of one object.                                       *)
(***************************************************************************)
MainCommands == {"test", "planetaryPositions", "muhurta", "frobnicate"}

\* process.argv[3]: the text of an object, text JSON.parse rejects, or 'null'
MainArgs == {"object", "malformed", "null"}

\* JSON.stringify of a result object, by its success flag and message
JsonLine(result) == [success |-> result.success, message |-> result.message]

\* the line of the catch block of main
CatchLine == [success |-> FALSE, message |-> "Error: "]

\* the line written when initSwissEphemeris returns false
InitFailureLine == [success |-> FALSE, message |-> "Failed to initialize Swiss Ephemeris"]

\* the switch of main; args.year of a null args throws a TypeError
SwitchThrows(command, args) ==
    args = "null" /\ command \in {"planetaryPositions", "muhurta"}

SwitchResult(command, random) ==
    CASE command = "test" ->
             [success |-> TRUE, message |-> "Swiss Ephemeris calculator is working"]
      [] command = "planetaryPositions" -> calculatePlanetaryPositionsSvc
      [] command = "muhurta" -> calculateMuhurtaSvc(calcDate, random)
      [] OTHER -> [success |-> FALSE, message |-> "Unknown command: "]

\* everything main writes to stdout, in order
MainOutput(argv, faults, random) ==
    IF argv.args = "malformed" THEN <<CatchLine>>
    ELSE IF faults.initThrows THEN <<InitFailureLine>>
    ELSE IF SwitchThrows(argv.command, argv.args) THEN <<CatchLine>>
    ELSE <<JsonLine(SwitchResult(argv.command, random))>>
         \o (IF faults.closeThrows THEN <<CatchLine>> ELSE <<>>)

MainIdle ==
    /\ mainArgv = [command |-> "test", args |-> "object"]
    /\ mainFaults = [initThrows |-> FALSE, closeThrows |-> FALSE]
    /\ mainStdout = Nothing

MainInit ==
    /\ mainArgv \in [command : MainCommands, args : MainArgs]
    /\ mainFaults \in [initThrows : BOOLEAN, closeThrows : BOOLEAN]
    /\ mainStdout = Nothing

\* main(), from process.argv to the end of the try / catch
RunMain(random) ==
    /\ mainStdout = Nothing
    /\ mainStdout' = Some(MainOutput(mainArgv, mainFaults, random))
    /\ UNCHANGED <<mainArgv, mainFaults, notMain>>

(***************************************************************************)
(* The location field of the onboarding form (App.tsx): handleLocationChange*)
(* with fetchCitySuggestions, and selectLocation.  A text is the sequence  *)
(* of its characters.  network is what the browser has sent to other hosts.*)
(***************************************************************************)
FALLBACK_CITIES == <<
    <<"M", "u", "m", "b", "a", "i", ",", " ", "I", "n", "d", "i", "a">>,
    <<"D", "e", "l", "h", "i", ",", " ", "I", "n", "d", "i", "a">>,
    <<"N", "e", "w", " ", "Y", "o", "r", "k", ",", " ", "U", "S", "A">>,
    <<"L", "o", "n", "d", "o", "n", ",", " ", "U", "K">>,
    <<"T", "o", "k", "y", "o", ",", " ", "J", "a", "p", "a", "n">>,
    <<"P", "a", "r", "i", "s", ",", " ", "F", "r", "a", "n", "c", "e">>,
    <<"S", "y", "d", "n", "e", "y", ",", " ", "A", "u", "s", "t", "r", "a", "l", "i", "a">>,
    <<"B", "e", "r", "l", "i", "n", ",", " ", "G", "e", "r", "m", "a", "n", "y">>,
    <<"R", "o", "m", "e", ",", " ", "I", "t", "a", "l", "y">>,
    <<"M", "a", "d", "r", "i", "d", ",", " ", "S", "p", "a", "i", "n">>,
    <<"T", "o", "r", "o", "n", "t", "o", ",", " ", "C", "a", "n", "a", "d", "a">>,
    <<"M", "o", "s", "c", "o", "w", ",", " ", "R", "u", "s", "s", "i", "a">>,
    <<"C", "a", "i", "r", "o", ",", " ", "E", "g", "y", "p", "t">>,
    <<"R", "i", "o", " ", "d", "e", " ", "J", "a", "n", "e", "i", "r", "o", ",", " ", "B", "r", "a", "z", "i", "l">>,
    <<"C", "a", "p", "e", " ", "T", "o", "w", "n", ",", " ", "S", "o", "u", "t", "h", " ", "A", "f", "r", "i", "c", "a">>,
    <<"M", "e", "x", "i", "c", "o", " ", "C", "i", "t", "y", ",", " ", "M", "e", "x", "i", "c", "o">>,
    <<"B", "a", "n", "g", "k", "o", "k", ",", " ", "T", "h", "a", "i", "l", "a", "n", "d">>,
    <<"S", "e", "o", "u", "l", ",", " ", "S", "o", "u", "t", "h", " ", "K", "o", "r", "e", "a">>,
    <<"A", "m", "s", "t", "e", "r", "d", "a", "m", ",", " ", "N", "e", "t", "h", "e", "r", "l", "a", "n", "d", "s">>,
    <<"I", "s", "t", "a", "n", "b", "u", "l", ",", " ", "T", "u", "r", "k", "e", "y">>,
    <<"D", "u", "b", "a", "i", ",", " ", "U", "A", "E">>,
    <<"S", "i", "n", "g", "a", "p", "o", "r", "e">>,
    <<"H", "o", "n", "g", " ", "K", "o", "n", "g">>
>>

\* String.prototype.toLowerCase
toLowerCase(text) ==
    LET upper == <<"A", "B", "C", "D", "E", "F", "G", "H", "I", "J", "K", "L", "M",
                   "N", "O", "P", "Q", "R", "S", "T", "U", "V", "W", "X", "Y", "Z">>
        lower == <<"a", "b", "c", "d", "e", "f", "g", "h", "i", "j", "k", "l", "m",
                   "n", "o", "p", "q", "r", "s", "t", "u", "v", "w", "x", "y", "z">>
    IN  [n \in 1 .. Len(text) |->
            IF \E k \in 1 .. Len(upper) : upper[k] = text[n]
            THEN lower[CHOOSE k \in 1 .. Len(upper) : upper[k] = text[n]]
            ELSE text[n]]

\* String.prototype.includes
includes(text, part) ==
    \E k \in 0 .. Len(text) - Len(part) : SubSeq(text, k + 1, k + Len(part)) = part

\* encodeURIComponent: letters stay, a space and a comma are escaped
encodeURIComponent(text) ==
    [n \in 1 .. Len(text) |->
        CASE text[n] = " " -> "%20"
          [] text[n] = "," -> "%2C"
          [] OTHER -> text[n]]

SuggestionLimit == 5

\* FALLBACK_CITIES.filter(city => city.toLowerCase().includes(value.toLowerCase())).slice(0, 5)
FilteredSuggestions(value) ==
    LET Matches(city) == includes(toLowerCase(city), toLowerCase(value))
        found == SelectSeq(FALLBACK_CITIES, Matches)
    IN  SubSeq(found, 1, Min(SuggestionLimit, Len(found)))

\* what fetch meets: a reply with cities, a reply without, a status that is
\* not ok, or no reply at all
ApiReplies ==
    {[kind |-> "ok", data |-> <<[city |-> <<"M", "u", "m", "b", "a", "i">>, country |-> <<"I", "n", "d", "i", "a">>],
                               [city |-> <<"M", "u", "l", "t", "a", "n">>, country |-> <<"P", "a", "k", "i", "s", "t", "a", "n">>]>>],
     [kind |-> "ok", data |-> <<>>],
     [kind |-> "notOk", data |-> <<>>],
     [kind |-> "failed", data |-> <<>>]}

\* the GET request of fetchCitySuggestions
CityRequest(query) ==
    [host |-> "wft-geo-db.p.rapidapi.com", namePrefix |-> encodeURIComponent(query)]

\* what fetchCitySuggestions returns: the cities as "City, Country", or []
\* from the query guard and from the catch block
fetchCitySuggestions(query, reply) ==
    IF Len(query) < 2 THEN <<>>
    ELSE IF reply.kind = "ok"
    THEN [n \in 1 .. Len(reply.data) |->
             reply.data[n].city \o <<",", " ">> \o reply.data[n].country]
    ELSE <<>>

MaxRequests == 2

TypedTexts ==
    {<<>>,
     <<"M">>,
     <<"M", "u">>,
     <<"m", "u", "m">>,
     <<"n", "e", "w", " ", "y">>,
     <<"L", "o">>,
     <<"z", "q">>}

LocIdle ==
    /\ location = <<>>
    /\ locationSuggestions = <<>>
    /\ showSuggestions = FALSE
    /\ network = <<>>
    /\ lookups = {}

\* handleLocationChange for the text now in the field, up to its await: the
\* request of fetchCitySuggestions is sent and the handler waits for it
handleLocationChange(value) ==
    /\ Len(value) > 1 => Len(network) < MaxRequests
    /\ location' = value
    /\ IF Len(value) > 1
       THEN /\ network' = Append(network, CityRequest(value))
            /\ lookups' = lookups \cup {[id |-> Len(network) + 1, value |-> value]}
            /\ UNCHANGED <<locationSuggestions, showSuggestions>>
       ELSE /\ showSuggestions' = FALSE
            /\ UNCHANGED <<locationSuggestions, network, lookups>>
    /\ UNCHANGED notLoc

\* the lookup of one waiting call settles, with any reply, and that call of
\* handleLocationChange goes on after its await with the value it was given
LookupCompletes(lookup, reply) ==
    /\ lookup \in lookups
    /\ lookups' = lookups \ {lookup}
    /\ LET suggestions == fetchCitySuggestions(lookup.value, reply)
           shown == IF Len(suggestions) > 0 THEN suggestions
                    ELSE FilteredSuggestions(lookup.value)
       IN  /\ locationSuggestions' = shown
           /\ showSuggestions' = (Len(shown) > 0)
    /\ UNCHANGED <<location, network, notLoc>>

\* a click on one of the suggestions shown
selectLocation(n) ==
    /\ showSuggestions
    /\ n \in 1 .. Len(locationSuggestions)
    /\ location' = locationSuggestions[n]
    /\ showSuggestions' = FALSE
    /\ UNCHANGED <<locationSuggestions, network, lookups, notLoc>>

(***************************************************************************)
(* SwissEphemerisService: the child-process protocol.  The stdout of the   *)
(* calculator process is a sequence of pieces of text; JSON.parse accepts  *)
(* it only when the pieces make one complete object.                       *)
(***************************************************************************)
MaxChunks == 3

JsonFields == {"success:true", "success:false", "message", "payload"}

StdoutPieces == {"{", "}"} \cup JsonFields

\* exit codes passed to the 'close' handler; -1 stands for null (killed by a signal)
ExitCodes == {0, 1, 0 - 1}

\* does JSON.parse(stdoutData) return
IsJson(text) ==
    /\ Len(text) >= 2
    /\ text[1] = "{"
    /\ text[Len(text)] = "}"
    /\ \A n \in 2 .. Len(text) - 1 : text[n] \in JsonFields

\* the object JSON.parse(stdoutData) returns: of a repeated key the last one stays
JsonParse(text) ==
    LET keys == {n \in 1 .. Len(text) : text[n] \in {"success:true", "success:false"}}
        last == CHOOSE n \in keys : \A k \in keys : k <= n
    IN  [success |-> IF keys = {} THEN Nothing ELSE Some(text[last] = "success:true"),
         message |-> IF \E n \in 1 .. Len(text) : text[n] = "message"
                     THEN Some(<<"calculator message">>) ELSE Nothing,
         payload |-> \E n \in 1 .. Len(text) : text[n] = "payload"]

Resolved(value) == [settled |-> "resolved", value |-> value, reason |-> ""]
Rejected(reason) ==
    [settled |-> "rejected", reason |-> reason,
     value |-> [success |-> Nothing, message |-> Nothing, payload |-> FALSE]]

\* a 'close' handler that parses stdout whatever the exit code is
OnCloseAnyCode(code, stdoutData) ==
    IF IsJson(stdoutData) THEN Resolved(JsonParse(stdoutData))
    ELSE Rejected("Failed to parse calculator output")

\* child.on('close', (code) => ...)
OnClose(code, stdoutData) ==
    IF code = 0
    THEN IF IsJson(stdoutData) THEN Resolved(JsonParse(stdoutData))
         ELSE Rejected("Failed to parse calculator output")
    ELSE Rejected("Calculator process exited with code")

\* child.on('error', ...)
OnError == Rejected("Failed to start calculator process")

\* the catch block around spawn
OnSpawnThrow == Rejected("Error running calculation")

ErrorPrefix(command) ==
    IF command = "muhurta" THEN "Error calculating muhurta"
    ELSE "Error calculating planetary positions"

\* the public method after runCalculation settled: return result, or the catch block
PublicReturn(command, outcome) ==
    IF outcome.settled = "resolved"
    THEN [state |-> "fulfilled", value |-> outcome.value]
    ELSE [state |-> "fulfilled",
          value |-> [success |-> Some(FALSE),
                     message |-> Some(<<ErrorPrefix(command), outcome.reason>>),
                     payload |-> FALSE]]

NoChild == [command |-> "", stdoutData |-> <<>>, event |-> "none", code |-> 0]

\* spawn('node', [jsScriptPath, command, JSON.stringify(args)])
Spawned(command) ==
    [command |-> command, stdoutData |-> <<>>, event |-> "running", code |-> 0]

ServiceCommands == {"planetaryPositions", "muhurta"}

SvcIdle ==
    /\ initialized = FALSE
    /\ svcPc = "idle"
    /\ svcCommand = ""
    /\ child = NoChild
    /\ svcResult = Nothing

SvcInit == SvcIdle

\* calculatePlanetaryPositions(...) or calculateMuhurta(...) is called: up to
\* the first runCalculation, of initialize when the service is not initialized
CallService(command) ==
    /\ svcPc \in {"idle", "done"}
    /\ svcCommand' = command
    /\ svcResult' = Nothing
    /\ child' = Spawned(IF initialized THEN command ELSE "test")
    /\ svcPc' = IF initialized THEN "calc" ELSE "init"
    /\ UNCHANGED <<initialized, notSvc>>

\* child.stdout.on('data', ...)
StdoutData(piece) ==
    /\ svcPc \in {"init", "calc"}
    /\ child.event = "running"
    /\ Len(child.stdoutData) < MaxChunks
    /\ child' = [child EXCEPT !.stdoutData = Append(@, piece)]
    /\ UNCHANGED <<initialized, svcPc, svcCommand, svcResult, notSvc>>

\* the promise of runCalculation settles and the awaiting method goes on:
\* initialize sets the flag and the query is spawned, or the method returns
Settle(outcome, event, code) ==
    IF svcPc = "init"
    THEN /\ initialized' = (outcome.settled = "resolved"
                              /\ outcome.value.success = Some(TRUE))
         /\ child' = Spawned(svcCommand)
         /\ svcPc' = "calc"
         /\ UNCHANGED <<svcCommand, svcResult>>
    ELSE /\ svcResult' = Some(PublicReturn(svcCommand, outcome))
         /\ child' = [child EXCEPT !.event = event, !.code = code]
         /\ svcPc' = "done"
         /\ UNCHANGED <<initialized, svcCommand>>

ChildClose(code) ==
    /\ svcPc \in {"init", "calc"}
    /\ child.event = "running"
    /\ Settle(OnClose(code, child.stdoutData), "close", code)
    /\ UNCHANGED notSvc

ChildError ==
    /\ svcPc \in {"init", "calc"}
    /\ child.event = "running"
    /\ Settle(OnError, "error", 0)
    /\ UNCHANGED notSvc

SpawnThrows ==
    /\ svcPc \in {"init", "calc"}
    /\ child.event = "running"
    /\ child.stdoutData = <<>>
    /\ Settle(OnSpawnThrow, "throw", 0)
    /\ UNCHANGED notSvc

\* the spawned process blocks: it writes nothing more and never exits.
\* runCalculation registers 'data', 'close' and 'error' handlers only: no
\* timer is set and child.kill is never called, so nothing follows
ChildHangs ==
    /\ svcPc \in {"init", "calc"}
    /\ child.event = "running"
    /\ child' = [child EXCEPT !.event = "hung"]
    /\ UNCHANGED <<initialized, svcPc, svcCommand, svcResult, notSvc>>

(***************************************************************************)
(* The nakshatra index of calculatePlanetaryPositions on its own: two      *)
(* longitudes in [0, 360) and the index computed for each.                 *)
(***************************************************************************)
NakIdle ==
    /\ lonA = 0 /\ lonB = 0
    /\ nakshatraOut = Nothing /\ yogaOut = Nothing

NakInit ==
    /\ lonA \in Longitudes
    /\ lonB \in Longitudes
    /\ nakshatraOut = Nothing /\ yogaOut = Nothing

\* const nakshatra = Math.floor(longitude * 27 / 360), for both longitudes
CallNakshatra ==
    /\ nakshatraOut = Nothing
    /\ nakshatraOut' = Some([a |-> NakshatraIndex(lonA), b |-> NakshatraIndex(lonB)])
    /\ UNCHANGED <<lonA, lonB, yogaOut, notNak>>

\* the longitudes the provider reports: [0, 360), and 360 itself, which the
\* normalisation of an angle a rounding error below 0 yields
ReportedLongitudes == Longitudes \cup {Deg(360)}

LonInit ==
    /\ lonA \in ReportedLongitudes
    /\ lonB \in Longitudes
    /\ nakshatraOut = Nothing /\ yogaOut = Nothing

\* calculateYoga(lonA, lonB) of both implementations
CallYoga ==
    /\ yogaOut = Nothing
    /\ yogaOut' = Some([poc |-> calculateYogaPoc(lonA, lonB),
                        svc |-> calculateYogaSvc(lonA, lonB)])
    /\ UNCHANGED <<lonA, lonB, nakshatraOut, notNak>>

(***************************************************************************)
(* Specification of the calendrical derivation: the inputs are any two     *)
(* Numbers in [0, 360); one call with them, one call with sunLon + 360.    *)
(***************************************************************************)
TithiIdle ==
    /\ sunLon = 0 /\ moonLon = 0
    /\ tithiOut = Nothing /\ tithiWrapOut = Nothing

TithiInit ==
    /\ sunLon \in Longitudes
    /\ moonLon \in Longitudes
    /\ tithiOut = Nothing
    /\ tithiWrapOut = Nothing

CallTithi ==
    /\ tithiOut = Nothing
    /\ tithiOut' = Some([poc |-> calculateTithiPoc(sunLon, moonLon),
                         svc |-> calculateTithiSvc(sunLon, moonLon)])
    /\ UNCHANGED <<sunLon, moonLon, tithiWrapOut, notTithi>>

CallTithiWrapped ==
    /\ IsSome(tithiOut)
    /\ tithiWrapOut = Nothing
    /\ tithiWrapOut' = Some([poc |-> calculateTithiPoc(Fl(sunLon + Deg(360)), moonLon),
                             svc |-> calculateTithiSvc(Fl(sunLon + Deg(360)), moonLon)])
    /\ UNCHANGED <<sunLon, moonLon, tithiOut, notTithi>>

InitCalendar == TithiInit /\ AppIdle /\ CalcIdle /\ SvcIdle /\ NakIdle /\ MainIdle /\ LocIdle
NextCalendar == CallTithi \/ CallTithiWrapped
SpecCalendar == InitCalendar /\ [][NextCalendar]_vars

(***************************************************************************)
(* Specification of the scoring function and the ranker.                   *)
(***************************************************************************)
InitRank == AppInit /\ TithiIdle /\ CalcIdle /\ SvcIdle /\ NakIdle /\ MainIdle /\ LocIdle
NextRank ==
    \/ \E i \in 0 .. HorizonDays - 1 : ScoreDay(i)
    \/ \E random \in RandomDraws : Rank(random)
    \/ \E random \in RandomDraws : RankAgain(random)
SpecRank == InitRank /\ [][NextRank]_vars

(***************************************************************************)
(* Specification of the calculator: position snapshots and daylight        *)
(* partitions, for every ephemeris and date of the inputs.                 *)
(***************************************************************************)
InitCalculator == CalcInit /\ TithiIdle /\ AppIdle /\ SvcIdle /\ NakIdle /\ MainIdle /\ LocIdle
NextCalculator ==
    \/ CallPositionsSvc
    \/ CallPositionsPoc
    \/ \E random \in QualityDraws : CallMuhurtaSvc(random)
    \/ \E random \in QualityDraws : CallMuhurtaPoc(random)
SpecCalculator == InitCalculator /\ [][NextCalculator]_vars

(***************************************************************************)
(* Specification of the service: calls of the public methods, one after    *)
(* the other, against a calculator process that may write anything to      *)
(* stdout, exit with any code, fail to start, not be spawned at all, or    *)
(* block for ever.                                                         *)
(***************************************************************************)
InitService == SvcInit /\ TithiIdle /\ AppIdle /\ CalcIdle /\ NakIdle /\ MainIdle /\ LocIdle
NextService ==
    \/ \E command \in ServiceCommands : CallService(command)
    \/ \E piece \in StdoutPieces : StdoutData(piece)
    \/ \E code \in ExitCodes : ChildClose(code)
    \/ ChildError
    \/ SpawnThrows
    \/ ChildHangs
SpecService == InitService /\ [][NextService]_vars

\* The event loop of Node runs every handler whose event is pending, and a
\* process that does not block goes on to write and to exit: every step of
\* the service that stays possible is eventually taken.  Whether the process
\* blocks is up to the process.
SpecServiceFair ==
    /\ InitService
    /\ [][NextService]_vars
    /\ WF_vars(\E piece \in StdoutPieces : StdoutData(piece))
    /\ WF_vars(\E code \in ExitCodes : ChildClose(code))
    /\ WF_vars(ChildError)
    /\ WF_vars(SpawnThrows)

(***************************************************************************)
(* Specification of the nakshatra index.                                   *)
(***************************************************************************)
InitNakshatra == NakInit /\ TithiIdle /\ AppIdle /\ CalcIdle /\ SvcIdle /\ MainIdle /\ LocIdle
NextNakshatra == CallNakshatra
SpecNakshatra == InitNakshatra /\ [][NextNakshatra]_vars

(***************************************************************************)
(* Specification of the quantities derived from longitudes: the nakshatra  *)
(* index of a reported longitude and the yoga of two longitudes.           *)
(***************************************************************************)
InitLongitudes ==
    LonInit /\ TithiIdle /\ AppIdle /\ CalcIdle /\ SvcIdle /\ MainIdle /\ LocIdle
NextLongitudes == CallNakshatra \/ CallYoga
SpecLongitudes == InitLongitudes /\ [][NextLongitudes]_vars

(***************************************************************************)
(* Specification of the calculator script as a process: one run of main    *)
(* for every command line, provider behaviour and fault of the library.    *)
(***************************************************************************)
InitMain == MainInit /\ CalcInit /\ TithiIdle /\ AppIdle /\ SvcIdle /\ NakIdle /\ LocIdle
NextMain == \E random \in QualityDraws : RunMain(random)
SpecMain == InitMain /\ [][NextMain]_vars

(***************************************************************************)
(* Specification of the component: mount, with or without saved birth      *)
(* data, then the form, submit, the event type selector and the way back   *)
(* to onboarding, in any order.                                            *)
(***************************************************************************)
InitDashboard ==
    ViewInit /\ TithiIdle /\ CalcIdle /\ SvcIdle /\ NakIdle /\ MainIdle /\ LocIdle
NextDashboard ==
    \/ Mount
    \/ \E data \in BirthProfiles \cup {EmptyBirthData} : ChangeBirthData(data)
    \/ \E random \in RandomDraws : handleSubmit(random)
    \/ \E key \in EventKeys, random \in RandomDraws : SelectEventType(key, random)
    \/ ReturnToOnboarding
SpecDashboard == InitDashboard /\ [][NextDashboard]_vars

(***************************************************************************)
(* Specification of the location field: the user types and picks           *)
(* suggestions; every request meets any of the replies, and the replies    *)
(* arrive in any order.                                                    *)
(***************************************************************************)
InitLocation ==
    LocIdle /\ TithiIdle /\ AppIdle /\ CalcIdle /\ SvcIdle /\ NakIdle /\ MainIdle
NextLocation ==
    \/ \E value \in TypedTexts : handleLocationChange(value)
    \/ \E id \in 1 .. MaxRequests, value \in TypedTexts, reply \in ApiReplies :
          LookupCompletes([id |-> id, value |-> value], reply)
    \/ \E n \in 1 .. SuggestionLimit : selectLocation(n)
SpecLocation == InitLocation /\ [][NextLocation]_vars

(***************************************************************************)
(* C1: for all sunLon, moonLon in [0,360), calculateTithi returns a tithi  *)
(* number in 1..30 (never 0 or 31), in sweph-poc and in the embedded       *)
(* calculator script.                                                      *)
(***************************************************************************)
C1_TithiInRange ==
    IsSome(tithiOut) =>
        /\ Val(tithiOut).poc.tithi \in 1 .. 30
        /\ Val(tithiOut).svc.tithi \in 1 .. 30

(***************************************************************************)
(* C2: angle-wrap invariance: calculateTithi(sunLon + 360, moonLon)        *)
(* returns the same tithi number as calculateTithi(sunLon, moonLon).       *)
(***************************************************************************)
C2_WrapInvariant ==
    (IsSome(tithiOut) /\ IsSome(tithiWrapOut)) =>
        /\ Val(tithiWrapOut).poc.tithi = Val(tithiOut).poc.tithi
        /\ Val(tithiWrapOut).svc.tithi = Val(tithiOut).svc.tithi

(***************************************************************************)
(* C3: the 15 muhurta intervals produced by calculateMuhurta for one day   *)
(* are numbered 1..15 in order, are contiguous (the end of one is the      *)
(* start of the next), do not overlap, start at sunrise and end at sunset, *)
(* and each has duration (sunset - sunrise)/15.                            *)
(***************************************************************************)
MinuteOfDay(time) == time.hh * 60 + time.mm

IsPartition(result) ==
    LET ms      == Val(result.muhurtas)
        sunrise == formatTime(result.sunrise)
        sunset  == formatTime(result.sunset)
    IN  /\ Len(ms) = 15
        /\ \A n \in 1 .. 15 : ms[n].number = n
        /\ \A n \in 1 .. 14 : ms[n].endTime = ms[n + 1].startTime
        /\ \A n \in 1 .. 15 : MinuteOfDay(ms[n].startTime) < MinuteOfDay(ms[n].endTime)
        /\ ms[1].startTime = sunrise
        /\ ms[15].endTime = sunset
        /\ \A n \in 1 .. 15 :
              15 * (MinuteOfDay(ms[n].endTime) - MinuteOfDay(ms[n].startTime))
                  = MinuteOfDay(sunset) - MinuteOfDay(sunrise)

C3_Partition ==
    /\ (IsSome(muhurtaSvc) /\ Val(muhurtaSvc).success) => IsPartition(Val(muhurtaSvc))
    /\ IsSome(muhurtaPoc) => IsPartition(Val(muhurtaPoc))

(***************************************************************************)
(* C4: for every candidate date, every event category of the catalog and   *)
(* every birth profile, calculateMuhuratScore returns a score in [10,100]. *)
(***************************************************************************)
C4_ScoreClamped ==
    IsSome(scoreOut) => Val(scoreOut).score \in 10 .. 100

\* a call whose raw score, 50+25+20+15 or more, was cut down to 100
C4_Witness ==
    /\ IsSome(scoreOut)
    /\ RawScore(AddDays(startDate, Val(scoreOut).i), selectedEventType, birthData) > 100
    /\ Val(scoreOut).score = 100

(***************************************************************************)
(* C5: calculateMuhuratScore equals the reference formula                  *)
(* clamp(50 + 25*[tithi favorable] + weekdayBonus + 15*[nakshatra          *)
(* auspicious] + 10*[(candidate month - birth month) mod 6 = 0], 10, 100)  *)
(* with weekdayBonus Monday 15, Wednesday 20, Thursday 10, Friday 15 and 0 *)
(* otherwise, for every input.  The birth month is the month of the birth  *)
(* date of the profile.                                                    *)
(***************************************************************************)
RefWeekdayBonus ==
    [wd \in 0 .. 6 |-> IF wd \in {1, 5} THEN 15
                       ELSE IF wd = 3 THEN 20
                       ELSE IF wd = 4 THEN 10 ELSE 0]

RefScore(date, eventType, birth) ==
    LET tithiBonus == IF calculateLunarDay(date) \in EVENT_TYPES[eventType].auspicious
                      THEN 25 ELSE 0
        nakBonus   == IF \E n \in {4, 8, 12, 13, 15} : getNakshatra(date) = NAKSHATRAS[n]
                      THEN 15 ELSE 0
        phase      == IF (getMonth(date) - (birth.date.m - 1)) % 6 = 0 THEN 10 ELSE 0
        sum        == 50 + tithiBonus + RefWeekdayBonus[getDay(date)] + nakBonus + phase
    IN  IF sum < 10 THEN 10 ELSE IF sum > 100 THEN 100 ELSE sum

C5_ScoreIsReference ==
    IsSome(scoreOut) =>
        Val(scoreOut).score =
            RefScore(AddDays(startDate, Val(scoreOut).i), selectedEventType, birthData)

(***************************************************************************)
(* C6: idempotence of ranking: two calls of generateOptimizedMuhurats with *)
(* the same birth profile, event category and 'today' yield identical      *)
(* ordered output.                                                         *)
(***************************************************************************)
C6_Idempotent ==
    (IsSome(muhurats) /\ IsSome(muhuratsAgain)) => Val(muhuratsAgain) = Val(muhurats)

(***************************************************************************)
(* C7: the list returned by generateOptimizedMuhurats is sorted by         *)
(* descending score, and candidates with equal score appear in ascending   *)
(* date order.                                                             *)
(***************************************************************************)
C7_SortedTiesByDate ==
    IsSome(muhurats) =>
        \A p, q \in 1 .. Len(Val(muhurats)) :
            p < q =>
                /\ Val(muhurats)[p].score >= Val(muhurats)[q].score
                /\ (Val(muhurats)[p].score = Val(muhurats)[q].score
                        => Val(muhurats)[p].date < Val(muhurats)[q].date)

\* a returned list that holds both a tie and two different scores
C7_Witness ==
    /\ IsSome(muhurats)
    /\ \E p, q \in 1 .. Len(Val(muhurats)) :
          p < q /\ Val(muhurats)[p].score = Val(muhurats)[q].score
    /\ \E p, q \in 1 .. Len(Val(muhurats)) :
          Val(muhurats)[p].score > Val(muhurats)[q].score

(***************************************************************************)
(* C8: generateOptimizedMuhurats returns the top 20 of the qualifying      *)
(* days: at most 20 candidates, each for a distinct day in                 *)
(* [today, today+90) with score >= 60, and no day of that window with      *)
(* score >= 60 that is left out scores strictly more than a returned one.  *)
(***************************************************************************)
WindowScore(i) == calculateMuhuratScore(AddDays(startDate, i), selectedEventType, birthData)

ReturnedDays == {Val(muhurats)[p].id : p \in 1 .. Len(Val(muhurats))}

C8_TopTwenty ==
    IsSome(muhurats) =>
        /\ Len(Val(muhurats)) <= 20
        /\ \A p \in 1 .. Len(Val(muhurats)) :
              LET m == Val(muhurats)[p]
              IN  /\ m.id \in 0 .. 89
                  /\ m.date = IsoDate(AddDays(startDate, m.id))
                  /\ m.score = WindowScore(m.id)
                  /\ m.score >= 60
        /\ \A p, q \in 1 .. Len(Val(muhurats)) :
              p # q => Val(muhurats)[p].id # Val(muhurats)[q].id
        /\ \A i \in (0 .. 89) \ ReturnedDays :
              WindowScore(i) >= 60 =>
                  \A p \in 1 .. Len(Val(muhurats)) :
                      WindowScore(i) <= Val(muhurats)[p].score

\* twenty returned, and a qualifying day had to be left out
C8_Witness ==
    /\ IsSome(muhurats)
    /\ Len(Val(muhurats)) = 20
    /\ \E i \in (0 .. 89) \ ReturnedDays : WindowScore(i) >= 60

(***************************************************************************)
(* C9: when the calculator process of the query exits with a non-zero      *)
(* code, fails to start, or exits 0 with stdout that is not parseable      *)
(* JSON, calculatePlanetaryPositions or calculateMuhurta of the service    *)
(* fulfils its promise with success = false and a message, and with no     *)
(* positions or muhurtas, whatever stdout held; only exit code 0 with      *)
(* parseable stdout yields the parsed result.  The promise is never        *)
(* rejected.                                                               *)
(***************************************************************************)
C9_FailureSurfaced ==
    svcPc = "done" =>
        /\ IsSome(svcResult)
        /\ Val(svcResult).state = "fulfilled"
        /\ IF child.event = "close" /\ child.code = 0 /\ IsJson(child.stdoutData)
           THEN Val(svcResult).value = JsonParse(child.stdoutData)
           ELSE /\ Val(svcResult).value.success = Some(FALSE)
                /\ IsSome(Val(svcResult).value.message)
                /\ ~ Val(svcResult).value.payload

\* the query's process wrote a complete object with a payload, then exited with code 1
C9_Witness ==
    /\ svcPc = "done"
    /\ child.command \in ServiceCommands
    /\ child.event = "close" /\ child.code = 1
    /\ IsJson(child.stdoutData)
    /\ JsonParse(child.stdoutData).payload
    /\ Val(svcResult).value.success = Some(FALSE)

(***************************************************************************)
(* C10: a position snapshot is all-bodies-or-failure:                      *)
(* calculatePlanetaryPositions either returns positions for all 8 roster   *)
(* bodies (Sun, Moon, Mercury, Venus, Mars, Jupiter, Saturn, Rahu), each   *)
(* the longitude the provider computed, or reports failure with no         *)
(* positions; if the provider fails or returns an error for any one body,  *)
(* no list of positions is returned.                                       *)
(***************************************************************************)
ProviderServedAll == \A n \in 1 .. Len(planets) : ephemeris[planets[n]].kind = "ok"

IsFullSnapshot(positions) ==
    /\ Len(positions) = 8
    /\ \A n \in 1 .. 8 :
          /\ positions[n].planet = planets[n]
          /\ positions[n].longitude = ephemeris[planets[n]].longitude

C10_AllOrNothing ==
    /\ IsSome(snapshotSvc) =>
          IF ProviderServedAll
          THEN /\ Val(snapshotSvc).success
               /\ IsSome(Val(snapshotSvc).positions)
               /\ IsFullSnapshot(Val(Val(snapshotSvc).positions))
          ELSE /\ ~ Val(snapshotSvc).success
               /\ Val(snapshotSvc).positions = Nothing
    /\ IsSome(snapshotPoc) =>
          IF ProviderServedAll
          THEN IsFullSnapshot(Val(snapshotPoc))
          ELSE Val(snapshotPoc) = <<>>

(***************************************************************************)
(* C11: a muhurta result whose sunrise and sunset are the fixed            *)
(* 06:00/18:00 approximation, not a rise/set computation, carries an       *)
(* explicit marker that it is approximate: the returned object has a key   *)
(* besides its data (success, date, sunrise, sunset, dayLength, muhurtas)  *)
(* that tells the caller so.                                               *)
(***************************************************************************)
IsMarkedApproximate(result) ==
    MuhurtaResultKeys(result)
        \ {"success", "date", "sunrise", "sunset", "dayLength", "muhurtas"} # {}

IsFixedDayWindow(result) ==
    /\ result.success
    /\ result.sunrise = revjul(sunriseJD)
    /\ result.sunset = revjul(sunsetJD)

C11_ApproximateMarked ==
    /\ (IsSome(muhurtaSvc) /\ IsFixedDayWindow(Val(muhurtaSvc)))
          => IsMarkedApproximate(Val(muhurtaSvc))
    /\ (IsSome(muhurtaPoc) /\ IsFixedDayWindow(Val(muhurtaPoc)))
          => IsMarkedApproximate(Val(muhurtaPoc))

(***************************************************************************)
(* C12: the nakshatra index floor(longitude*27/360) computed in            *)
(* calculatePlanetaryPositions is monotonically non-decreasing in          *)
(* longitude over [0,360) and takes every value 0..26 with no gaps: it is  *)
(* 0 at longitude 0, 26 at the largest longitude below 360, and from one   *)
(* longitude to the next it grows by at most 1.                            *)
(***************************************************************************)
IsNextLongitude(x, y) == x < y /\ ~ \E z \in Longitudes : x < z /\ z < y

C12_NakshatraMonotone ==
    IsSome(nakshatraOut) =>
        /\ Val(nakshatraOut).a \in 0 .. 26
        /\ lonA <= lonB => Val(nakshatraOut).a <= Val(nakshatraOut).b
        /\ lonA = 0 => Val(nakshatraOut).a = 0
        /\ (\A z \in Longitudes : z <= lonA) => Val(nakshatraOut).a = 26
        /\ IsNextLongitude(lonA, lonB) => Val(nakshatraOut).b <= Val(nakshatraOut).a + 1

\* two neighbouring longitudes on the two sides of a nakshatra boundary
C12_Witness ==
    /\ IsSome(nakshatraOut)
    /\ IsNextLongitude(lonA, lonB)
    /\ Val(nakshatraOut).b = Val(nakshatraOut).a + 1

(***************************************************************************)
(* C13: for sunLon = 280 and moonLon = 10, calculateTithi returns tithi 8  *)
(* with name 'Ashtami' and paksha 'Shukla'; in general the paksha is       *)
(* 'Shukla' exactly when the tithi is in 1..15 and 'Krishna' when it is in *)
(* 16..30, and a tithi name is defined for every tithi 1..30.  Both        *)
(* implementations.                                                        *)
(***************************************************************************)
IsTithiScenario(sun, moon, result) ==
    /\ (sun = Deg(280) /\ moon = Deg(10)) =>
          /\ result.tithi = 8
          /\ result.tithiName = "Ashtami"
          /\ result.paksha = "Shukla"
    /\ result.paksha = "Shukla" <=> result.tithi \in 1 .. 15
    /\ result.tithi \in 16 .. 30 => result.paksha = "Krishna"
    /\ result.tithi \in 1 .. 30 => result.tithiName # Undefined

C13_TithiScenario ==
    IsSome(tithiOut) =>
        /\ IsTithiScenario(sunLon, moonLon, Val(tithiOut).poc)
        /\ IsTithiScenario(sunLon, moonLon, Val(tithiOut).svc)

\* the call of the scenario
C13_Witness ==
    /\ IsSome(tithiOut)
    /\ sunLon = Deg(280) /\ moonLon = Deg(10)
    /\ Val(tithiOut).poc.tithi = 8 /\ Val(tithiOut).svc.tithi = 8

(***************************************************************************)
(* C14: with sunrise 06:00 and sunset 18:00, calculateMuhurta reports      *)
(* interval 1 as startTime 06:00 and endTime 06:48, and interval 15 as     *)
(* startTime 17:12 and endTime 18:00.                                      *)
(***************************************************************************)
IsSixToSixScenario(result) ==
    LET ms == Val(result.muhurtas)
    IN  /\ ms[1].startTime = [hh |-> 6, mm |-> 0]
        /\ ms[1].endTime = [hh |-> 6, mm |-> 48]
        /\ ms[15].startTime = [hh |-> 17, mm |-> 12]
        /\ ms[15].endTime = [hh |-> 18, mm |-> 0]

C14_SixToSix ==
    /\ (IsSome(muhurtaSvc) /\ Val(muhurtaSvc).success) => IsSixToSixScenario(Val(muhurtaSvc))
    /\ IsSome(muhurtaPoc) => IsSixToSixScenario(Val(muhurtaPoc))

(***************************************************************************)
(* C15: for a wedding, a candidate date whose tithi is favourable for      *)
(* weddings (the catalogue lists 1, 3, 5, 7, 10, 11 and 13), whose weekday *)
(* is Wednesday, whose nakshatra is Rohini and whose month is not aligned  *)
(* with the birth month has raw score 50+25+20+15 = 110, and               *)
(* calculateMuhuratScore returns 100.                                      *)
(***************************************************************************)
IsWednesdayUnaligned(date) ==
    /\ selectedEventType = "wedding"
    /\ getDay(date) = 3
    /\ ~PhaseAligned(date, birthData)

C15_WeddingScenario ==
    IsSome(scoreOut) =>
        LET date == AddDays(startDate, Val(scoreOut).i)
        IN  (/\ IsWednesdayUnaligned(date)
             /\ calculateLunarDay(date) \in EVENT_TYPES["wedding"].auspicious
             /\ getNakshatra(date) = "Rohini")
            => /\ RawScore(date, selectedEventType, birthData) = 110
               /\ Val(scoreOut).score = 100

\* the scored day is such a Wednesday
C15_Witness ==
    /\ IsSome(scoreOut)
    /\ IsWednesdayUnaligned(AddDays(startDate, Val(scoreOut).i))
    /\ calculateLunarDay(AddDays(startDate, Val(scoreOut).i))
           \in EVENT_TYPES["wedding"].auspicious
    /\ getNakshatra(AddDays(startDate, Val(scoreOut).i)) = "Rohini"
    /\ Val(scoreOut).score = 100

\* the statement with tithi 8 as a favourable tithi of weddings: on a
\* Wednesday of an unaligned month the raw score of a tithi-8 day is at
\* least 50+25+20, and 110, returned as 100, under Rohini
C15_WeddingTithiEight ==
    IsSome(scoreOut) =>
        LET date == AddDays(startDate, Val(scoreOut).i)
        IN  (IsWednesdayUnaligned(date) /\ calculateLunarDay(date) = 8)
            => /\ RawScore(date, selectedEventType, birthData) >= 50 + 25 + 20
               /\ getNakshatra(date) = "Rohini" =>
                      /\ RawScore(date, selectedEventType, birthData) = 110
                      /\ Val(scoreOut).score = 100

(***************************************************************************)
(* C16: the display time slot of every returned muhurat is one of 06:00,   *)
(* 07:30, 10:15 and 11:45, and it is a function of the inputs (birth       *)
(* profile, event category, 'today' and day index): two calls with the     *)
(* same inputs give the same day the same slot.                            *)
(***************************************************************************)
SlotsOf(list) == {<<list[n].id, list[n].time>> : n \in 1 .. Len(list)}

C16_SlotDeterministic ==
    /\ IsSome(muhurats) =>
           \A n \in 1 .. Len(Val(muhurats)) :
               Val(muhurats)[n].time \in {"06:00", "07:30", "10:15", "11:45"}
    /\ (IsSome(muhurats) /\ IsSome(muhuratsAgain)) =>
           SlotsOf(Val(muhuratsAgain)) = SlotsOf(Val(muhurats))

(***************************************************************************)
(* C18: every call of the calculator through runCalculation eventually     *)
(* completes: a public method that is waiting for the calculator process   *)
(* eventually returns, and a process that hangs is eventually ended (by    *)
(* the kill of a timeout), so that its call settles.                       *)
(***************************************************************************)
C18_CallCompletes ==
    /\ (svcPc \in {"init", "calc"}) ~> (svcPc = "done")
    /\ (child.event = "hung") ~> (child.event # "hung")

(***************************************************************************)
(* C19: for every command ('test', 'planetaryPositions', 'muhurta' or an   *)
(* unknown one) and every outcome, including a failed initialization and   *)
(* an exception at any step of main, the calculator process writes exactly *)
(* one JSON object to stdout.                                              *)
(***************************************************************************)
C19_OneObject ==
    IsSome(mainStdout) => Len(Val(mainStdout)) = 1

(***************************************************************************)
(* C20: no request to an external API is made with user data: nothing the  *)
(* browser sends to another host carries the text the user typed into the  *)
(* location field.                                                         *)
(***************************************************************************)
C20_NoUserDataSent ==
    \A n \in 1 .. Len(network) :
        network[n].namePrefix \notin {encodeURIComponent(text) : text \in TypedTexts}

(***************************************************************************)
(* C21: for all sunLon and moonLon in [0,360), calculateYoga takes         *)
(* sum = (sunLon + moonLon) mod 360, a value in [0,360), and returns the   *)
(* yoga number floor(sum/(360/27)) + 1, which is in 1..27 and has a yoga   *)
(* name, in sweph-poc and in the embedded calculator script.               *)
(***************************************************************************)
IsYogaOf(sum, result) ==
    /\ sum \in 0 .. Deg(360) - 1
    /\ result.yoga = (sum * 27) \div Deg(360) + 1
    /\ result.yoga \in 1 .. 27
    /\ result.yogaName # Undefined

C21_YogaFormula ==
    (IsSome(yogaOut) /\ lonA < Deg(360)) =>
        /\ IsYogaOf(YogaSum(lonA, lonB), Val(yogaOut).poc)
        /\ IsYogaOf(YogaSum(lonA, lonB), Val(yogaOut).svc)

(***************************************************************************)
(* C22: for every longitude in the closed range [0,360], 360 included, the *)
(* nakshatra index is in 0..26, so that the nakshatra name is one of the   *)
(* 27 names and nakshatra_num is in 1..27.                                 *)
(***************************************************************************)
C22_IndexClamped ==
    IsSome(nakshatraOut) =>
        /\ Val(nakshatraOut).a \in 0 .. 26
        /\ ArrayAt(nakshtraNames, Val(nakshatraOut).a) # Undefined
        /\ Val(nakshatraOut).a + 1 \in 1 .. 27

(***************************************************************************)
(* C23: for each of the 15 muhurta intervals, the instant for which        *)
(* calculateMuhurta asks the planetary positions (year, month, day, hour,  *)
(* minute, second passed to calculatePlanetaryPositions) is the midpoint   *)
(* (start + end)/2 of the interval, and so lies inside the interval.       *)
(***************************************************************************)
IsMidpointQuery(instants) ==
    \A n \in 1 .. Len(instants) :
        /\ instants[n] = midTime(n - 1)
        /\ instants[n] >= startTime(n - 1)
        /\ instants[n] <= endTime(n - 1)

C23_MidpointQueried ==
    /\ IsMidpointQuery(queried.svc)
    /\ IsMidpointQuery(queried.poc)

(***************************************************************************)
(* C24: when the position snapshot of a muhurta interval fails,            *)
(* calculateMuhurta reports failure (success = false); it never returns    *)
(* success = true with an interval whose tithi, yoga or nakshatra is the   *)
(* placeholder 'Unknown', in sweph-poc and in the embedded calculator      *)
(* script.                                                                 *)
(***************************************************************************)
HasPlaceholder(muhurta) ==
    \/ muhurta.tithi = <<"Unknown">>
    \/ muhurta.yoga = "Unknown"
    \/ muhurta.nakshatra = "Unknown"

IsFailureReported(result) ==
    /\ PositionsThrow => ~ result.success
    /\ result.success =>
           \A n \in 1 .. Len(Val(result.muhurtas)) : ~ HasPlaceholder(Val(result.muhurtas)[n])

C24_NoPlaceholder ==
    /\ IsSome(muhurtaSvc) => IsFailureReported(Val(muhurtaSvc))
    /\ IsSome(muhurtaPoc) => IsFailureReported(Val(muhurtaPoc))

(***************************************************************************)
(* C25: the quality label of each muhurta interval is a function of the    *)
(* inputs: two calls of calculateMuhurta with the same date and location   *)
(* return the same quality label for every interval.                       *)
(***************************************************************************)
QualitiesOf(result) ==
    [n \in 1 .. Len(Val(result.muhurtas)) |-> Val(result.muhurtas)[n].quality]

C25_QualityDeterministic ==
    (/\ IsSome(muhurtaSvc) /\ Val(muhurtaSvc).success
     /\ IsSome(muhurtaAgain) /\ Val(muhurtaAgain).success)
    => QualitiesOf(Val(muhurtaAgain)) = QualitiesOf(Val(muhurtaSvc))

(***************************************************************************)
(* C26: for every date, dates before the reference date 2024-01-01         *)
(* included, calculateLunarDay is an integer in 1..30 and getNakshatra is  *)
(* one of the 27 nakshatra names; hence every candidate that               *)
(* generateOptimizedMuhurats returns has a tithi in 1..30 and a nakshatra  *)
(* of the list, whatever 'today' is.                                       *)
(***************************************************************************)
IsNakshatraName(name) == \E n \in 1 .. Len(NAKSHATRAS) : NAKSHATRAS[n] = name

C26_TithiAndNakshatraDefined ==
    /\ IsSome(scoreOut) =>
           /\ calculateLunarDay(AddDays(startDate, Val(scoreOut).i)) \in 1 .. 30
           /\ IsNakshatraName(getNakshatra(AddDays(startDate, Val(scoreOut).i)))
    /\ IsSome(muhurats) =>
           \A n \in 1 .. Len(Val(muhurats)) :
               /\ Val(muhurats)[n].tithi \in 1 .. 30
               /\ IsNakshatraName(Val(muhurats)[n].nakshatra)

(***************************************************************************)
(* C27: the birth profile influences the score only through the month of   *)
(* its date: a birth profile with the same month (another day or year)     *)
(* gives the same score for the candidate date and event category, and     *)
(* the same scores in the same order from generateOptimizedMuhurats.       *)
(***************************************************************************)
SameBirthMonth == {other \in BirthProfiles : other.date.m = birthData.date.m}

ScoresInOrder(list) == [n \in 1 .. Len(list) |-> <<list[n].id, list[n].score>>]

C27_BirthMonthOnly ==
    \A other \in SameBirthMonth :
        /\ IsSome(scoreOut) =>
               calculateMuhuratScore(AddDays(startDate, Val(scoreOut).i),
                                     selectedEventType, other) = Val(scoreOut).score
        /\ IsSome(muhurats) =>
               \A random \in RandomDraws :
                   ScoresInOrder(generateOptimizedMuhurats(other, selectedEventType,
                                                           startDate, random))
                       = ScoresInOrder(Val(muhurats))

(***************************************************************************)
(* C28: a 'planetaryPositions' or 'muhurta' calculation is dispatched to   *)
(* the child process only after the service has been initialized           *)
(* successfully (the 'test' command returned success and initialized is    *)
(* true); when initialize() returns false the public method returns a      *)
(* failure without spawning the calculation.                               *)
(***************************************************************************)
C28_DispatchedWhenInitialized ==
    (child.command \in ServiceCommands /\ child.event # "none") => initialized

(***************************************************************************)
(* C29: the location suggestions shown always correspond to the most       *)
(* recent value typed into the location field: a lookup that completes     *)
(* after a later input (v1 completing after the lookup for v2 was started, *)
(* or after an input of fewer than 2 characters closed the list) neither   *)
(* replaces the suggestions nor re-opens the list.                         *)
(***************************************************************************)
IsStale(lookup) == lookup.id # Len(network) \/ Len(location) < 2

C29_LatestLookupWins ==
    [][\A lookup \in lookups \ lookups' :
           IsStale(lookup) => UNCHANGED <<locationSuggestions, showSuggestions>>]_vars

(***************************************************************************)
(* C30: whenever the dashboard view is displayed, the muhurat list held in *)
(* state is the result of generateOptimizedMuhurats for the current birth  *)
(* data and the currently selected event type, after any sequence of       *)
(* mount (with or without saved birth data), submit, event-type selection  *)
(* and return to onboarding.                                               *)
(***************************************************************************)
IsListOfCurrentInputs ==
    \E random \in RandomDraws :
        muhurats = generateMuhurats(selectedEventType, random)

C30_DashboardListCurrent ==
    (mounted /\ currentView = "dashboard") => IsListOfCurrentInputs

====
